---- MODULE Spec2Model ----
(***************************************************************************)
(* A model of hyperdb/hyperdb.py: the HyperDB vector store.                *)
(*                                                                         *)
(* A Python value that may be None is an option: <<>> is None and <<x>> is *)
(* the value x.  The store's matrix self.vectors is a record holding the   *)
(* flag none (self.vectors is None), the column count cols (shape[1]) and  *)
(* the rows.  Python indices are kept 0-based; row k is rows[k + 1].       *)
(*                                                                         *)
(* Numbers are integers on a grid on which float64 holds every integer and *)
(* float32 holds the even ones only, so that astype(np.float32) loses      *)
(* precision the way it does on real input.                                *)
(***************************************************************************)
EXTENDS Integers, Sequences, FiniteSets, TLC

VARIABLES documents, vectors, similarity_metric, pc, config, last, files, path, fresh

vars == <<documents, vectors, similarity_metric, pc, config, last, files, path, fresh>>

(* ------------------------------ bounds --------------------------------- *)

\* Distinct documents callers pass in.
NumDocs == 2
\* Longest caller-supplied vector.
MaxDim == 2
\* Most pairs the store is grown to.
MaxDocs == 3
\* Longest list handed to add_documents.
MaxBatch == 2
\* Length of the vectors the injected embedding function returns.
EmbDim == 2
\* Most pairs of a store that is saved and loaded.
MaxSaved == 1

Docs == 1..NumDocs
\* Caller-supplied vectors: every vector of length 1 over Val, and one
\* vector of each greater length up to MaxDim.
Val == {1, 2}
Vecs == [1..1 -> Val] \cup {[i \in 1..n |-> i] : n \in 2..MaxDim}
DocLists == UNION {[1..n -> Docs] : n \in 0..MaxBatch}
VecLists(n) == [1..n -> Vecs]
Indices == (0 - (MaxDocs + 1))..(MaxDocs + 1)
TopKs == {0, 2}

(* ------------------------------ values --------------------------------- *)

None == <<>>
Some(x) == <<x>>

\* self.vectors = None
NoMatrix == [none |-> TRUE, cols |-> 0, rows |-> <<>>]

\* x.astype(np.float32) on one number
AsFloat32(x) == x - (x % 2)

\* v.astype(np.float32) on one vector
AsFloat32Vec(v) == [i \in 1..Len(v) |-> AsFloat32(v[i])]

\* m.astype(np.float32) on a matrix
AsFloat32Matrix(m) == [m EXCEPT !.rows = [k \in 1..Len(m.rows) |-> AsFloat32Vec(m.rows[k])]]

\* The injected embedding collaborator: one float64 vector of length EmbDim
\* per input document, in input order.
embedding_function(docs) == [k \in 1..Len(docs) |-> [i \in 1..EmbDim |-> docs[k] + i]]

\* A finished call: the store it leaves, the exception it raised ("None" when
\* it returned), the argument lists of the embedding calls it made, how often
\* it entered the ranker and the metric, and its return value.
Outcome(docs, vecs, raised, calls, rk, mt, ret) ==
    [documents |-> docs, vectors |-> vecs, raised |-> raised,
     embed_calls |-> calls, ranker_calls |-> rk, metric_calls |-> mt, ret |-> ret]

(* ---------------------------- VectorStore ------------------------------ *)

\* np.empty((0, n), dtype=np.float32)
EmptyMatrix(n) == [none |-> FALSE, cols |-> n, rows |-> <<>>]

\* np.vstack([m, v]).astype(np.float32)
VStack(m, v) == AsFloat32Matrix([m EXCEPT !.rows = Append(m.rows, v)])

\* add_document with the document appended before the length check
add_document_appends_first(self, document, vector) ==
    LET calls == IF vector = None THEN <<(<<document>>)>> ELSE <<>>
        vec == IF vector = None THEN embedding_function(<<document>>)[1] ELSE vector[1]
        base == IF self.vectors.none THEN EmptyMatrix(Len(vec)) ELSE self.vectors
    IN  IF ~self.vectors.none /\ Len(vec) # self.vectors.cols
        THEN Outcome(Append(self.documents, document), self.vectors, "ValueError",
                     calls, 0, 0, None)
        ELSE Outcome(Append(self.documents, document), VStack(base, vec),
                     "None", calls, 0, 0, None)

\* HyperDB.add_document(document, vector=None)
add_document(self, document, vector) ==
    LET calls == IF vector = None THEN <<(<<document>>)>> ELSE <<>>
        vec == IF vector = None THEN embedding_function(<<document>>)[1] ELSE vector[1]
        base == IF self.vectors.none THEN EmptyMatrix(Len(vec)) ELSE self.vectors
    IN  IF ~self.vectors.none /\ Len(vec) # self.vectors.cols
        THEN Outcome(self.documents, self.vectors, "ValueError", calls, 0, 0, None)
        ELSE Outcome(Append(self.documents, document), VStack(base, vec),
                     "None", calls, 0, 0, None)

\* np.delete that always drops the last row
DeleteRow_last(m, index) == [m EXCEPT !.rows = SubSeq(m.rows, 1, Len(m.rows) - 1)]

\* np.delete(m, index, axis=0) on a matrix of n rows, index already in [-n, n)
DeleteRow(m, index) ==
    LET n == Len(m.rows)
        k == IF index < 0 THEN index + n ELSE index
    IN  [m EXCEPT !.rows = SubSeq(m.rows, 1, k) \o SubSeq(m.rows, k + 2, n)]

\* list.pop left out
Pop_skipped(l, index) == l

\* list.pop(index), index already in [-n, n)
Pop(l, index) ==
    LET n == Len(l)
        k == IF index < 0 THEN index + n ELSE index
    IN  SubSeq(l, 1, k) \o SubSeq(l, k + 2, n)

\* HyperDB.remove_document(index)
remove_document(self, index) ==
    LET n == Len(self.vectors.rows) IN
    IF self.vectors.none
    THEN Outcome(self.documents, self.vectors, "AxisError", <<>>, 0, 0, None)
    ELSE IF index >= n \/ index < 0 - n
    THEN Outcome(self.documents, self.vectors, "IndexError", <<>>, 0, 0, None)
    ELSE IF index >= Len(self.documents) \/ index < 0 - Len(self.documents)
    THEN Outcome(self.documents, DeleteRow(self.vectors, index), "IndexError", <<>>, 0, 0, None)
    ELSE Outcome(Pop(self.documents, index), DeleteRow(self.vectors, index),
                 "None", <<>>, 0, 0, None)

\* the loop leaving after its first pair
AddLoop_once(self, docs, vecs, k) ==
    IF k > Len(docs) \/ k > Len(vecs)
    THEN Outcome(self.documents, self.vectors, "None", <<>>, 0, 0, None)
    ELSE add_document(self, docs[k], Some(vecs[k]))

\* for vector, document in zip(vectors, documents): self.add_document(document, vector)
\* from pair k on; the first raise ends the loop.
RECURSIVE AddLoop(_, _, _, _)
AddLoop(self, docs, vecs, k) ==
    IF k > Len(docs) \/ k > Len(vecs)
    THEN Outcome(self.documents, self.vectors, "None", <<>>, 0, 0, None)
    ELSE LET r == add_document(self, docs[k], Some(vecs[k])) IN
         IF r.raised # "None" THEN r
         ELSE LET rest == AddLoop([documents |-> r.documents, vectors |-> r.vectors],
                                  docs, vecs, k + 1)
              IN  [rest EXCEPT !.embed_calls = r.embed_calls \o rest.embed_calls]

RECURSIVE EmbedLoop(_, _, _)
\* a loop that lets add_document embed each document itself
EmbedLoop(self, docs, k) ==
    IF k > Len(docs)
    THEN Outcome(self.documents, self.vectors, "None", <<>>, 0, 0, None)
    ELSE LET r == add_document(self, docs[k], None) IN
         IF r.raised # "None" THEN r
         ELSE LET rest == EmbedLoop([documents |-> r.documents, vectors |-> r.vectors],
                                    docs, k + 1)
              IN  [rest EXCEPT !.embed_calls = r.embed_calls \o rest.embed_calls]

\* add_documents embedding one document at a time
add_documents_per_item(self, docs, vecs) ==
    IF docs = <<>>
    THEN Outcome(self.documents, self.vectors, "None", <<>>, 0, 0, None)
    ELSE IF vecs = None \/ vecs[1] = <<>> THEN EmbedLoop(self, docs, 1)
    ELSE AddLoop(self, docs, vecs[1], 1)

\* HyperDB.add_documents(documents, vectors=None)
add_documents(self, docs, vecs) ==
    IF docs = <<>>
    THEN Outcome(self.documents, self.vectors, "None", <<>>, 0, 0, None)
    ELSE LET embed == vecs = None \/ vecs[1] = <<>>
             calls == IF embed THEN <<docs>> ELSE <<>>
             vs == IF embed
                   THEN [k \in 1..Len(docs) |-> AsFloat32Vec(embedding_function(docs)[k])]
                   ELSE vecs[1]
             r == AddLoop(self, docs, vs, 1)
         IN  [r EXCEPT !.embed_calls = calls \o r.embed_calls]

(* ------------------------- SimilarityMetric, Ranker -------------------- *)

RECURSIVE Dot(_, _, _)
\* the inner product of v and q from component i on
Dot(v, q, i) == IF i > Len(v) THEN 0 ELSE v[i] * q[i] + Dot(v, q, i + 1)

\* dot_product(vectors, query_vector): one score per row
dot_product(m, q) == [k \in 1..Len(m.rows) |-> Dot(m.rows[k], q, 1)]

\* The metric the store was built with, applied.  Stores are built with "dot"
\* here; the other four metrics are real-valued and are not evaluated.
ApplyMetric(metric, m, q) == CASE metric = "dot_product" -> dot_product(m, q)

\* The 0-based row with the largest score among rows; the lowest row on a tie.
Best(scores, rows) ==
    CHOOSE i \in rows : \A j \in rows :
        scores[i + 1] > scores[j + 1] \/ (scores[i + 1] = scores[j + 1] /\ i <= j)

RECURSIVE TopRows(_, _, _)
\* The k best rows among rows, best first.
TopRows(scores, rows, k) ==
    IF k <= 0 \/ rows = {} THEN <<>>
    ELSE LET b == Best(scores, rows)
         IN  <<b>> \o TopRows(scores, rows \ {b}, k - 1)

\* hyper_SVM_ranking_algorithm_sort(vectors, query_vector, top_k, metric):
\* the winning rows and their scores, and whether the metric ran.
hyper_SVM_ranking_algorithm_sort(m, q, top_k, metric) ==
    IF Len(m.rows) = 0
    THEN [raised |-> "None", indices |-> <<>>, scores |-> <<>>, metric_calls |-> 0]
    ELSE IF Len(q) # m.cols
    THEN [raised |-> "ValueError", indices |-> <<>>, scores |-> <<>>, metric_calls |-> 1]
    ELSE LET scores == ApplyMetric(metric, m, q)
             top == TopRows(scores, 0..(Len(m.rows) - 1), top_k)
         IN  [raised |-> "None", indices |-> top,
              scores |-> [k \in 1..Len(top) |-> scores[top[k] + 1]],
              metric_calls |-> 1]

\* The tail shared by query and similar_vectors: map the ranked rows back to
\* documents, with their scores when return_similarities is set.
Ranked(self, metric, q, top_k, return_similarities, calls) ==
    LET r == hyper_SVM_ranking_algorithm_sort(self.vectors, q, top_k, metric) IN
    IF r.raised # "None"
    THEN Outcome(self.documents, self.vectors, r.raised, calls, 1, r.metric_calls, None)
    ELSE Outcome(self.documents, self.vectors, "None", calls, 1, r.metric_calls,
                 IF return_similarities
                 THEN [k \in 1..Len(r.indices) |->
                          <<self.documents[r.indices[k] + 1], r.scores[k]>>]
                 ELSE [k \in 1..Len(r.indices) |-> self.documents[r.indices[k] + 1]])

\* HyperDB.query(query_text, top_k, return_similarities)
query(self, metric, query_text, top_k, return_similarities) ==
    IF self.vectors.none
    THEN Outcome(self.documents, self.vectors, "None", <<>>, 0, 0, <<>>)
    ELSE Ranked(self, metric, embedding_function(<<query_text>>)[1], top_k,
                return_similarities, <<(<<query_text>>)>>)

\* HyperDB.similar_vectors(vector, top_k, return_similarities)
similar_vectors(self, metric, vector, top_k, return_similarities) ==
    IF self.vectors.none
    THEN Outcome(self.documents, self.vectors, "None", <<>>, 0, 0, <<>>)
    ELSE Ranked(self, metric, vector, top_k, return_similarities, <<>>)

(* ----------------------------- strings --------------------------------- *)

\* A Python str is the sequence of its characters.
Str_dot == <<"d", "o", "t">>
Str_cosine == <<"c", "o", "s", "i", "n", "e">>
Str_euclidean == <<"e", "u", "c", "l", "i", "d", "e", "a", "n">>
Str_derrida == <<"d", "e", "r", "r", "i", "d", "a">>
Str_adams == <<"a", "d", "a", "m", "s">>
Str_gz == <<".", "g", "z">>

\* s.__contains__(sub)
Contains(s, sub) ==
    \E i \in 0..(Len(s) - Len(sub)) : SubSeq(s, i + 1, i + Len(sub)) = sub

\* s.endswith(suffix)
EndsWith(s, suffix) ==
    Len(s) >= Len(suffix) /\ SubSeq(s, Len(s) - Len(suffix) + 1, Len(s)) = suffix

LowerAlpha == <<"a", "c", "d", "e", "i", "l", "m", "n", "o", "r", "s", "t", "u">>
UpperAlpha == <<"A", "C", "D", "E", "I", "L", "M", "N", "O", "R", "S", "T", "U">>

\* str.upper and str.lower on one character, and on a string
UpperChar(c) ==
    IF \E i \in 1..Len(LowerAlpha) : LowerAlpha[i] = c
    THEN UpperAlpha[CHOOSE i \in 1..Len(LowerAlpha) : LowerAlpha[i] = c] ELSE c
LowerChar(c) ==
    IF \E i \in 1..Len(UpperAlpha) : UpperAlpha[i] = c
    THEN LowerAlpha[CHOOSE i \in 1..Len(UpperAlpha) : UpperAlpha[i] = c] ELSE c
Upper(s) == [i \in 1..Len(s) |-> UpperChar(s[i])]
Lower(s) == [i \in 1..Len(s) |-> LowerChar(s[i])]
Capitalize(s) == [i \in 1..Len(s) |-> IF i = 1 THEN UpperChar(s[i]) ELSE s[i]]

(* ---------------------------- construction ----------------------------- *)

\* the choice made on the lower-cased string
SelectMetric_lowercased(metric_name) ==
    LET low == Lower(metric_name) IN
    IF Contains(low, Str_dot)
    THEN [raised |-> "None", metric |-> "dot_product"]
    ELSE IF Contains(low, Str_cosine)
    THEN [raised |-> "None", metric |-> "cosine_similarity"]
    ELSE IF Contains(low, Str_euclidean)
    THEN [raised |-> "None", metric |-> "euclidean_metric"]
    ELSE IF Contains(low, Str_derrida)
    THEN [raised |-> "None", metric |-> "derridaean_similarity"]
    ELSE IF Contains(low, Str_adams)
    THEN [raised |-> "None", metric |-> "adams_similarity"]
    ELSE [raised |-> "Exception", metric |-> "unset"]

\* HyperDB.__init__: the metric chosen for the configuration string, or the
\* exception raised when it names none.
SelectMetric(metric_name) ==
    IF Contains(metric_name, Str_dot)
    THEN [raised |-> "None", metric |-> "dot_product"]
    ELSE IF Contains(metric_name, Str_cosine)
    THEN [raised |-> "None", metric |-> "cosine_similarity"]
    ELSE IF Contains(metric_name, Str_euclidean)
    THEN [raised |-> "None", metric |-> "euclidean_metric"]
    ELSE IF Contains(metric_name, Str_derrida)
    THEN [raised |-> "None", metric |-> "derridaean_similarity"]
    ELSE IF Contains(metric_name, Str_adams)
    THEN [raised |-> "None", metric |-> "adams_similarity"]
    ELSE [raised |-> "Exception", metric |-> "unset"]

\* HyperDB(): documents = [], vectors = None; add_documents([]) returns at once.
NewStore == [documents |-> <<>>, vectors |-> NoMatrix]

(* ---------------------------- PersistenceCodec ------------------------- *)

RECURSIVE Flatten(_, _)
\* the values of rows k.. of a matrix, row after row
Flatten(rows, k) == IF k > Len(rows) THEN <<>> ELSE rows[k] \o Flatten(rows, k + 1)

\* pickle.dumps({"vectors": ndarray, "documents": list}): a byte stream holding
\* the array's dtype, shape and values, then the list's length and items.
Pickle(data) ==
    <<"ndarray", "float32", Len(data.vectors.rows), data.vectors.cols>>
        \o Flatten(data.vectors.rows, 1)
        \o <<"list", Len(data.documents)>> \o data.documents

\* pickle.loads(stream)
Unpickle(b) ==
    LET n == b[3]
        d == b[4]
        at == 4 + n * d
        len == b[at + 2]
    IN  [vectors |-> [none |-> FALSE, cols |-> d,
                      rows |-> [k \in 1..n |-> SubSeq(b, 4 + (k - 1) * d + 1, 4 + k * d)]],
         documents |-> SubSeq(b, at + 3, at + 2 + len)]

\* gzip: the magic number, then the payload
GzipCompress(b) == <<"1f8b">> \o b
IsGzip(b) == Len(b) > 0 /\ b[1] = "1f8b"
GzipDecompress(b) == Tail(b)

\* save that never compresses
save_plain(self, fs, storage_file) ==
    IF self.vectors.none THEN fs
    ELSE [fs EXCEPT ![storage_file] =
             Some(Pickle([vectors |-> self.vectors, documents |-> self.documents]))]

\* HyperDB.save(storage_file): the files after the call
save(self, fs, storage_file) ==
    IF self.vectors.none THEN fs
    ELSE LET data == [vectors |-> self.vectors, documents |-> self.documents] IN
         IF EndsWith(storage_file, Str_gz)
         THEN [fs EXCEPT ![storage_file] = Some(GzipCompress(Pickle(data)))]
         ELSE [fs EXCEPT ![storage_file] = Some(Pickle(data))]

\* HyperDB.load(storage_file)
load(self, fs, storage_file) ==
    IF fs[storage_file] = None
    THEN Outcome(self.documents, self.vectors, "FileNotFoundError", <<>>, 0, 0, None)
    ELSE LET b == fs[storage_file][1] IN
         IF EndsWith(storage_file, Str_gz)
         THEN IF ~IsGzip(b)
              THEN Outcome(self.documents, self.vectors, "BadGzipFile", <<>>, 0, 0, None)
              ELSE LET data == Unpickle(GzipDecompress(b)) IN
                   Outcome(data.documents, AsFloat32Matrix(data.vectors),
                           "None", <<>>, 0, 0, None)
         ELSE IF IsGzip(b)
              THEN Outcome(self.documents, self.vectors, "UnpicklingError", <<>>, 0, 0, None)
              ELSE LET data == Unpickle(b) IN
                   Outcome(data.documents, AsFloat32Matrix(data.vectors),
                           "None", <<>>, 0, 0, None)

(* ------------------------------ inputs --------------------------------- *)

MetricNames == <<Str_dot, Str_cosine, Str_euclidean, Str_derrida, Str_adams>>
MetricFunctions == <<"dot_product", "cosine_similarity", "euclidean_metric",
                     "derridaean_similarity", "adams_similarity">>

\* Configuration strings handed to the constructor: a metric name in lower,
\* upper or capitalised spelling, or no metric name, between a prefix and a
\* suffix that may themselves hold a metric name.
ConfigCores ==
    {MetricNames[i] : i \in 1..5} \cup {Upper(MetricNames[i]) : i \in 1..5}
        \cup {Capitalize(MetricNames[i]) : i \in 1..5}
        \cup {<<>>, <<"d", "o">>, <<"l", "2">>}
ConfigPrefixes == {<<>>, <<"m", "y", "_">>, Str_adams}
ConfigSuffixes == {<<>>, <<"_", "s", "i", "m">>, Str_dot, Upper(Str_dot)}
ConfigStrings == {p \o c \o x : p \in ConfigPrefixes, c \in ConfigCores, x \in ConfigSuffixes}

File_plain == <<"d", "b", ".", "p", "i", "c", "k", "l", "e">>
File_gz == File_plain \o Str_gz
FileNames == {File_plain, File_gz}

(* --------------------------- the state machine ------------------------- *)

self == [documents |-> documents, vectors |-> vectors]

\* What is remembered of the latest call until the caller has looked at it: its
\* name and arguments, the store before it, its outcome and, for a load, the
\* path a save just before it wrote.
NoCall ==
    [op |-> "init", document |-> 0, vector |-> None, docs |-> <<>>, vecs |-> None,
     index |-> 0, top_k |-> 0, file |-> <<>>, pre |-> NewStore,
     raised |-> "None", embed_calls |-> <<>>, ranker_calls |-> 0, metric_calls |-> 0,
     ret |-> None, after_save |-> <<>>]

Called(op, out) ==
    [NoCall EXCEPT !.op = op, !.pre = self, !.raised = out.raised,
                   !.embed_calls = out.embed_calls, !.ranker_calls = out.ranker_calls,
                   !.metric_calls = out.metric_calls, !.ret = out.ret]

\* The store built by HyperDB(similarity_metric="dot"), nothing written yet.
Init ==
    /\ documents = <<>>
    /\ vectors = NoMatrix
    /\ similarity_metric = "dot_product"
    /\ pc = "ready"
    /\ config = Str_dot
    /\ last = NoCall
    /\ files = [f \in FileNames |-> None]
    /\ path = File_plain
    /\ fresh = NewStore

\* The same store in a program that saves to and loads from one path, either
\* the plain or the compressed one.
InitPersist ==
    /\ documents = <<>>
    /\ vectors = NoMatrix
    /\ similarity_metric = "dot_product"
    /\ pc = "ready"
    /\ config = Str_dot
    /\ last = NoCall
    /\ files = [f \in FileNames |-> None]
    /\ path \in FileNames
    /\ fresh = NewStore

\* A constructor call about to choose its metric.
InitNew ==
    /\ documents = <<>>
    /\ vectors = NoMatrix
    /\ similarity_metric = "unset"
    /\ pc = "new"
    /\ config \in ConfigStrings
    /\ last = NoCall
    /\ files = [f \in FileNames |-> None]
    /\ path = File_plain
    /\ fresh = NewStore

Construct ==
    /\ pc = "new"
    /\ LET r == SelectMetric(config) IN
          /\ similarity_metric' = r.metric
          /\ pc' = IF r.raised = "None" THEN "ready" ELSE "failed"
          /\ last' = [NoCall EXCEPT !.op = "__init__", !.raised = r.raised]
    /\ UNCHANGED <<documents, vectors, config, files, path, fresh>>

AddDocument(cap, document, vector) ==
    /\ pc = "ready"
    /\ Len(documents) < cap
    /\ LET out == add_document(self, document, vector) IN
          /\ documents' = out.documents
          /\ vectors' = out.vectors
          /\ last' = [Called("add_document", out) EXCEPT !.document = document,
                                                        !.vector = vector]
    /\ pc' = "returned"
    /\ UNCHANGED <<similarity_metric, config, files, path, fresh>>

AddDocuments(docs, vecs) ==
    /\ pc = "ready"
    /\ Len(documents) + Len(docs) <= MaxDocs
    /\ LET out == add_documents(self, docs, vecs) IN
          /\ documents' = out.documents
          /\ vectors' = out.vectors
          /\ last' = [Called("add_documents", out) EXCEPT !.docs = docs, !.vecs = vecs]
    /\ pc' = "returned"
    /\ UNCHANGED <<similarity_metric, config, files, path, fresh>>

RemoveDocument(index) ==
    /\ pc = "ready"
    /\ LET out == remove_document(self, index) IN
          /\ documents' = out.documents
          /\ vectors' = out.vectors
          /\ last' = [Called("remove_document", out) EXCEPT !.index = index]
    /\ pc' = "returned"
    /\ UNCHANGED <<similarity_metric, config, files, path, fresh>>

Query(query_text, top_k, return_similarities) ==
    /\ pc = "ready"
    /\ LET out == query(self, similarity_metric, query_text, top_k, return_similarities) IN
          last' = [Called("query", out) EXCEPT !.document = query_text, !.top_k = top_k]
    /\ pc' = "returned"
    /\ UNCHANGED <<documents, vectors, similarity_metric, config, files, path, fresh>>

SimilarVectors(vector, top_k, return_similarities) ==
    /\ pc = "ready"
    /\ LET out == similar_vectors(self, similarity_metric, vector, top_k,
                                  return_similarities) IN
          last' = [Called("similar_vectors", out) EXCEPT !.vector = Some(vector),
                                                         !.top_k = top_k]
    /\ pc' = "returned"
    /\ UNCHANGED <<documents, vectors, similarity_metric, config, files, path, fresh>>

Save ==
    /\ pc = "ready"
    /\ files' = save(self, files, path)
    /\ last' = [Called("save", Outcome(documents, vectors, "None", <<>>, 0, 0, None))
                   EXCEPT !.file = path]
    /\ pc' = "returned"
    /\ UNCHANGED <<documents, vectors, similarity_metric, config, path, fresh>>

\* fresh = HyperDB(); fresh.load(path)
Load ==
    /\ pc = "ready"
    /\ LET out == load(NewStore, files, path) IN
          /\ fresh' = [documents |-> out.documents, vectors |-> out.vectors]
          /\ last' = [Called("load", out) EXCEPT !.file = path,
                                                 !.after_save = last.after_save]
    /\ pc' = "returned"
    /\ UNCHANGED <<documents, vectors, similarity_metric, config, files, path>>

\* The caller drops the store and builds another: HyperDB(similarity_metric="dot")
Create ==
    /\ pc = "ready"
    /\ documents' = NewStore.documents
    /\ vectors' = NewStore.vectors
    /\ last' = [NoCall EXCEPT !.op = "__init__"]
    /\ pc' = "returned"
    /\ UNCHANGED <<similarity_metric, config, files, path, fresh>>

\* The call has returned and the caller has looked at its outcome: the record
\* of the call and the store a load filled are dropped.  What stays is the
\* path a save has just written, for the load that may follow at once.
Return ==
    /\ pc = "returned"
    /\ pc' = "ready"
    /\ last' = [NoCall EXCEPT !.after_save = IF last.op = "save" THEN last.file ELSE <<>>]
    /\ fresh' = NewStore
    /\ UNCHANGED <<documents, vectors, similarity_metric, config, files, path>>

OptVecs == {None} \cup {Some(v) : v \in Vecs}
\* vectors for add_documents with n documents: omitted, or a list as long as
\* the documents or one shorter (zip stops at the shorter)
OptVecLists(n) ==
    {None} \cup UNION {{Some(l) : l \in VecLists(m)} :
                          m \in {k \in 0..MaxBatch : n - 1 <= k /\ k <= n}}

Next ==
    \/ \E document \in Docs, vector \in OptVecs : AddDocument(MaxDocs, document, vector)
    \/ \E docs \in DocLists : \E vecs \in OptVecLists(Len(docs)) : AddDocuments(docs, vecs)
    \/ \E index \in Indices : RemoveDocument(index)
    \/ \E query_text \in Docs, top_k \in TopKs, rs \in BOOLEAN : Query(query_text, top_k, rs)
    \/ \E vector \in Vecs, top_k \in TopKs, rs \in BOOLEAN : SimilarVectors(vector, top_k, rs)
    \/ Return

Spec == Init /\ [][Next]_vars

NextPersist ==
    \/ \E document \in Docs, vector \in OptVecs : AddDocument(MaxSaved, document, vector)
    \/ \E index \in {0 - 1, 0} : RemoveDocument(index)
    \/ Save
    \/ Load
    \/ Create
    \/ Return

SpecPersist == InitPersist /\ [][NextPersist]_vars

NextInit == Construct

SpecInit == InitNew /\ [][NextInit]_vars

(* ------------------------------- claims -------------------------------- *)

\* The pre-state of the latest call, and sizes.
pre == last.pre
n_before == Len(pre.documents)
IsAdd == last.op \in {"add_document", "add_documents"}

\* C1: after every add_document, add_documents and remove_document call, failed
\* or not, there are as many documents as matrix rows and all rows have one
\* length, the matrix's column count.
C1_PairsAndDimension ==
    /\ Len(documents) = Len(vectors.rows)
    /\ \A k \in 1..Len(vectors.rows) : Len(vectors.rows[k]) = vectors.cols
    /\ \A j, k \in 1..Len(vectors.rows) : Len(vectors.rows[j]) = Len(vectors.rows[k])

\* C1 witness: a batch add that appended a pair and then failed.
C1_Witness ==
    /\ last.op = "add_documents"
    /\ last.raised = "ValueError"
    /\ Len(documents) > n_before

\* The vectors an add call pairs with documents, in the order it appends them,
\* and those documents.
Supplied ==
    IF last.op = "add_document"
    THEN <<IF last.vector = None THEN embedding_function(<<last.document>>)[1]
           ELSE last.vector[1]>>
    ELSE IF last.docs = <<>> THEN <<>>
    ELSE IF last.vecs = None \/ last.vecs[1] = <<>> THEN embedding_function(last.docs)
    ELSE IF Len(last.vecs[1]) > Len(last.docs)
    THEN SubSeq(last.vecs[1], 1, Len(last.docs))
    ELSE last.vecs[1]
SuppliedDocs ==
    IF last.op = "add_document" THEN <<last.document>>
    ELSE SubSeq(last.docs, 1, Len(Supplied))

\* An add call on a store with a fixed dimension, one of whose vectors has
\* another length.
Mismatching ==
    /\ IsAdd
    /\ ~pre.vectors.none
    /\ \E k \in 1..Len(Supplied) : Len(Supplied[k]) # pre.vectors.cols

\* C2 as stated: every add call with a vector of the wrong length fails with the
\* dimension error and leaves documents and vectors as they were.
C2_Original ==
    Mismatching =>
        /\ last.raised = "ValueError"
        /\ documents = pre.documents
        /\ vectors = pre.vectors

\* C2 amended: such a call fails with the dimension error; the pairs before the
\* first vector of the wrong length have been appended (as float32), nothing
\* else has changed, so add_document leaves the store as it was.
C2_MismatchKeepsPrefix ==
    Mismatching =>
        LET j == CHOOSE k \in 1..Len(Supplied) :
                     /\ Len(Supplied[k]) # pre.vectors.cols
                     /\ \A i \in 1..(k - 1) : Len(Supplied[i]) = pre.vectors.cols
        IN  /\ last.raised = "ValueError"
            /\ documents = pre.documents \o SubSeq(SuppliedDocs, 1, j - 1)
            /\ vectors.cols = pre.vectors.cols
            /\ ~vectors.none
            /\ vectors.rows = pre.vectors.rows
                   \o [i \in 1..(j - 1) |-> AsFloat32Vec(Supplied[i])]
            /\ last.op = "add_document" => documents = pre.documents /\ vectors = pre.vectors

\* C2 witness: a batch on a store with a dimension whose second vector is the
\* first of the wrong length.
C2_Witness ==
    /\ Mismatching
    /\ last.op = "add_documents"
    /\ Len(documents) = n_before + 1

\* C3 as stated: remove_document with an index outside [0, n) fails with an
\* index error and leaves documents and vectors as they were.
C3_Original ==
    (last.op = "remove_document" /\ ~(0 <= last.index /\ last.index < n_before)) =>
        /\ last.raised \in {"IndexError", "AxisError"}
        /\ documents = pre.documents
        /\ vectors = pre.vectors

\* C4: remove_document(i) with 0 <= i < n succeeds, leaves n - 1 pairs, keeps the
\* pairs before i in place and moves each pair after i down by one.
C4_RemoveShifts ==
    (last.op = "remove_document" /\ 0 <= last.index /\ last.index < n_before) =>
        /\ last.raised = "None"
        /\ Len(documents) = n_before - 1
        /\ Len(vectors.rows) = n_before - 1
        /\ vectors.cols = pre.vectors.cols
        /\ \A k \in 0..(last.index - 1) :
              /\ documents[k + 1] = pre.documents[k + 1]
              /\ vectors.rows[k + 1] = pre.vectors.rows[k + 1]
        /\ \A j \in (last.index + 1)..(n_before - 1) :
              /\ documents[j] = pre.documents[j + 1]
              /\ vectors.rows[j] = pre.vectors.rows[j + 1]

\* C4 witness: the middle pair of three removed.
C4_Witness ==
    /\ last.op = "remove_document"
    /\ last.index = 1
    /\ n_before = 3
    /\ Len(documents) = 2

RECURSIVE OneByOne(_, _, _, _)
\* add_document(docs[k], vs[k]), then the same for k + 1, ..., each call made
\* whether or not the one before it raised.
OneByOne(st, docs, vs, k) ==
    IF k > Len(docs) THEN st
    ELSE LET r == add_document(st, docs[k], Some(vs[k]))
         IN  OneByOne([documents |-> r.documents, vectors |-> r.vectors], docs, vs, k + 1)

\* C5: add_documents(documents) without vectors leaves the store that one
\* add_document(document, vector) call per item leaves, the vectors being the
\* embedding function's.
C5_BatchIsOneByOne ==
    (last.op = "add_documents" /\ last.vecs = None /\ last.docs # <<>>) =>
        self = OneByOne(pre, last.docs, embedding_function(last.docs), 1)

\* C5 witness: a batch of two embedded into a store and stored.
C5_Witness ==
    /\ last.op = "add_documents"
    /\ last.vecs = None
    /\ Len(last.docs) = 2
    /\ Len(documents) = n_before + 2

\* C6: add_documents without vectors calls the embedding function once, with the
\* whole list, when the list is not empty, and never when it is.
C6_OneEmbeddingCall ==
    (last.op = "add_documents" /\ last.vecs = None) =>
        last.embed_calls = IF last.docs = <<>> THEN <<>> ELSE <<last.docs>>

\* C6 witness: a batch of two stored after one embedding call.
C6_Witness ==
    /\ last.op = "add_documents"
    /\ last.vecs = None
    /\ Len(last.docs) = 2
    /\ last.raised = "None"
    /\ Len(last.embed_calls) = 1

\* C7 as stated: on a store of no pairs query and similar_vectors return an empty
\* result and enter neither the ranker nor the metric.
C7_Original ==
    (last.op \in {"query", "similar_vectors"} /\ Len(documents) = 0) =>
        /\ last.raised = "None"
        /\ last.ret = <<>>
        /\ last.ranker_calls = 0
        /\ last.metric_calls = 0

\* C8 as stated: add_document on a store of no pairs never fails with the
\* dimension error; the vector's length becomes the dimension.
C8_Original ==
    (last.op = "add_document" /\ n_before = 0) =>
        /\ last.raised = "None"
        /\ vectors.cols = Len(Supplied[1])

\* The metric names a string holds, by position in MetricNames.
Hits(s) == {i \in 1..Len(MetricNames) : Contains(s, MetricNames[i])}

\* C9 as stated: construction succeeds with a metric whose name the lower-cased
\* configuration string holds, and fails when it holds none.
C9_Original ==
    pc # "new" =>
        IF Hits(Lower(config)) = {} THEN pc = "failed"
        ELSE /\ pc = "ready"
             /\ \E i \in Hits(Lower(config)) : similarity_metric = MetricFunctions[i]

\* C9 amended: the match is on the string as written: construction picks the
\* first of dot, cosine, euclidean, derrida, adams the string holds in lower
\* case, and fails when it holds none of them in lower case.
C9_CaseSensitiveFirstMatch ==
    pc # "new" =>
        IF Hits(config) = {} THEN pc = "failed" /\ last.raised = "Exception"
        ELSE /\ pc = "ready"
             /\ \E i \in Hits(config) :
                   /\ \A j \in Hits(config) : i <= j
                   /\ similarity_metric = MetricFunctions[i]

\* C9 witness: a string that names a metric in another letter case only, refused.
C9_Witness ==
    /\ pc = "failed"
    /\ Hits(config) = {}
    /\ Hits(Lower(config)) # {}

\* C10 as stated: load(f) right after save(f) leaves the fresh store with the
\* saved store's documents and vectors.
C10_Original ==
    (last.op = "load" /\ last.after_save = last.file) =>
        /\ fresh.documents = documents
        /\ fresh.vectors = vectors

\* C10 amended: when the saved store has a matrix (a document was added to it at
\* some time), load(f) right after save(f) succeeds and leaves the fresh store
\* with the saved store's documents and vectors.
C10_RoundTripWithMatrix ==
    (last.op = "load" /\ last.after_save = last.file /\ ~vectors.none) =>
        /\ last.raised = "None"
        /\ fresh.documents = documents
        /\ fresh.vectors = vectors

\* C10 witness: a store of one pair read back from the compressed file.
C10_Witness ==
    /\ last.op = "load"
    /\ last.after_save = File_gz
    /\ last.file = File_gz
    /\ Len(documents) = 1
    /\ Len(fresh.documents) = 1

====
